---- MODULE Spec2Model ----
(***************************************************************************)
(* Telemetry pipeline of the system monitor's main process (src/main.js): *)
(* the differential CPU usage estimator, the rolling performance history, *)
(* and the get-system-info handler that assembles one snapshot per poll.  *)
(***************************************************************************)
EXTENDS Integers, Sequences, FiniteSets, TLC

\* ------------------------------------------------------------------------
\* Bounds of the model
\* ------------------------------------------------------------------------

\* Small tick counters range over 0..MaxTick.
MaxTick == 2

\* A test drive of addToHistory pushes at most MaxPushes values per buffer.
MaxPushes == 70

\* At most MaxPolls get-system-info requests are handled in one run.
MaxPolls == 2

\* Bounds of the renderer model: getSystemInfo requests awaiting their
\* response, and setInterval calls made.
MaxInFlight == 3
MaxTimers == 3

\* ------------------------------------------------------------------------
\* Inputs: what os.cpus() can return
\* ------------------------------------------------------------------------

\* Idle tick counters of one core: the small range plus the counters of the
\* documented example (idle 1000 -> 1050).
IdleTicks == (0..MaxTick) \cup {1000, 1050}

\* Busy (user) tick counters of one core: the small range plus the counters
\* of the documented example (total 10000 -> 10500 with the idle ticks above).
UserTicks == (0..MaxTick) \cup {9000, 9450}

\* cpu.times of one core as os.cpus() reports it.
CoreTimes == [user : UserTicks, nice : {0}, sys : {0}, idle : IdleTicks, irq : {0}]

\* cpu.times of a second core, kept to the counters 0 and 1.
SecondCoreTimes == [user : {0, 1}, nice : {0}, sys : {0}, idle : {0, 1}, irq : {0}]

\* The lists of cores os.cpus() can return: one core, or two.
CpusInputs ==
    {<<c>> : c \in CoreTimes} \cup {<<c, d>> : c \in CoreTimes, d \in SecondCoreTimes}

\* ------------------------------------------------------------------------
\* State
\* ------------------------------------------------------------------------

VARIABLES
    previousCpuInfo,    \* main.js:8, the stored previous tick sample or Null
    currentCpuInfo,     \* the tick sample read by the latest getCpuUsage call
    priorCpuInfo,       \* the tick sample read by the call before the latest
    entryCpuInfo,       \* the value previousCpuInfo had when the latest call began
    cpuUsageReturned,   \* the value returned by the latest getCpuUsage call
    cpuCalls,           \* how many getCpuUsage calls have run: 0, 1, or 2 (2 = two or more)
    heap,               \* the arrays of the process, by identity: array id -> contents
    pushLog,            \* per history type, every value passed to addToHistory, in call order
    pushStep,           \* the test drive pushes 10, 10 + pushStep, 10 + 2*pushStep, ...
    snapshot,           \* the object returned by the latest get-system-info request, or Null
    snapshotTouched,    \* the consumer has mutated a history array of the latest snapshot
    everMutated,        \* the consumer has mutated a history array of some snapshot
    now,                \* wall-clock time in ms, as of the latest request
    prevPollAt,         \* wall-clock time of the request before the latest
    pollCount,          \* get-system-info requests handled so far
    gpuFetches,         \* getGPUInfo invocations so far
    networkFetches,     \* getNetworkInfo invocations so far
    cacheEntries,       \* per cached category, the entry the main process holds, or Null
    pollInputs,         \* what the OS and the shell commands answered to the latest poll
    domReady,           \* renderer: the DOMContentLoaded handler has run
    autoRefreshEnabled, \* renderer.js:191
    refreshInterval,    \* renderer.js:192 (NoTimer for null)
    activeTimers,       \* ids of the interval timers that are set and not cleared
    timersCreated,      \* setInterval calls so far; the next id is one more
    inFlight,           \* updateSystemInfo calls awaiting getSystemInfo(), oldest first
    display,            \* text shown by each modelled element
    lastResponse,       \* the latest getSystemInfo() response and the call it resumed
    diskFetches,        \* getDiskUsage invocations so far
    pollTrace,          \* the calls the latest poll made, in the order it made them
    launchDisabled,     \* launch-malwarebytes-btn: button.disabled
    launchBtnText,      \* launch-btn-text
    launchStatus,       \* malwarebytes-status
    launchRequest,      \* the launch-malwarebytes request under way, or Null
    launchResetTimer,   \* delay of the pending reset setTimeout, 0 when none is pending
    lastLaunch,         \* what the latest launchMalwarebytes() call found and did, or Null
    platform,           \* process.platform
    appState,           \* "starting", "running" (app.whenReady resolved) or "quit"
    openWindows,        \* ids of the BrowserWindows that exist and are not destroyed
    mainWindow,         \* the window the ipc handlers closed over (0 before whenReady)
    windowsCreated,     \* createWindow() calls so far; a new window's id is one more
    minimizedWindows,   \* open windows that are minimized
    maximizedWindows,   \* open windows that are maximized
    lastWindowRequest,  \* the latest window-control request and what it acted on, or Null
    storedName,         \* localStorage item 'userDisplayName' ("" when there is none)
    savedName,          \* the savedName constant read by initializeNameCustomization
    userDisplayName,    \* user-display-name text
    nameSetupHidden,    \* name-setup carries the class 'hidden'
    editNameBtnDisplay, \* edit-name-btn style.display ("" while the script has not set it)
    nameInput           \* name-input value

cpuVars == <<previousCpuInfo, currentCpuInfo, priorCpuInfo, entryCpuInfo, cpuUsageReturned, cpuCalls>>

histVars == <<heap, pushLog>>

pollVars == <<snapshot, snapshotTouched, everMutated, now, prevPollAt, pollCount,
              gpuFetches, networkFetches, cacheEntries, pollInputs, diskFetches, pollTrace>>

rendererVars == <<domReady, autoRefreshEnabled, refreshInterval, activeTimers, timersCreated,
                  inFlight, display, lastResponse>>

launchVars == <<launchDisabled, launchBtnText, launchStatus, launchRequest, launchResetTimer, lastLaunch>>

windowVars == <<platform, appState, openWindows, mainWindow, windowsCreated, minimizedWindows, maximizedWindows, lastWindowRequest>>

nameVars == <<storedName, savedName, userDisplayName, nameSetupHidden, editNameBtnDisplay, nameInput>>

mainVars == <<cpuVars, histVars, pushStep, pollVars>>

vars == <<cpuVars, histVars, pushStep, pollVars, rendererVars, launchVars, windowVars, nameVars>>

\* JavaScript null for an object-valued variable.
Null == [null |-> TRUE]

\* ------------------------------------------------------------------------
\* getCpuUsage (main.js:127-156)
\* ------------------------------------------------------------------------

RECURSIVE SumTimes(_, _)
\* Sum of all cpu.times fields over the first n cores (the for-in loop).
SumTimes(cpus, n) ==
    IF n = 0 THEN 0
    ELSE SumTimes(cpus, n - 1)
         + cpus[n].user + cpus[n].nice + cpus[n].sys + cpus[n].idle + cpus[n].irq

RECURSIVE SumIdle(_, _)
\* Sum of cpu.times.idle over the first n cores.
SumIdle(cpus, n) ==
    IF n = 0 THEN 0 ELSE SumIdle(cpus, n - 1) + cpus[n].idle

\* The sample built from one os.cpus() reading.
CurrentCpuInfoOf(cpus) ==
    [idle |-> SumIdle(cpus, Len(cpus)), total |-> SumTimes(cpus, Len(cpus))]

Abs(x) == IF x < 0 THEN -x ELSE x

\* The JavaScript number a / b for integers a, b: NaN and the infinities are
\* values of their own, a finite quotient is kept exact as a fraction.
JsDivide(a, b) ==
    IF b = 0
    THEN IF a = 0 THEN [kind |-> "NaN"]
         ELSE IF a > 0 THEN [kind |-> "Infinity"]
         ELSE [kind |-> "-Infinity"]
    ELSE [kind |-> "finite", num |-> a, den |-> b]

\* ~~x: ToInt32 maps NaN and the infinities to 0 and truncates a finite
\* number toward zero (every quotient of the model is far inside the signed
\* 32-bit range, where ToInt32 does not wrap).
DoubleTilde(x) ==
    IF x.kind # "finite" THEN 0
    ELSE IF (x.num >= 0) = (x.den > 0)
         THEN Abs(x.num) \div Abs(x.den)
         ELSE -(Abs(x.num) \div Abs(x.den))

\* The clamp left out: the raw value is returned.
ClampPercentOmitted(x) == x

\* Math.max(0, Math.min(100, x)).
ClampPercent(x) ==
    LET m == IF x < 100 THEN x ELSE 100
    IN  IF m > 0 THEN m ELSE 0

\* The value computed when a previous sample is stored (main.js:146-151).
UsageFromDelta(prev, cur) ==
    LET idleDifference == cur.idle - prev.idle
        totalDifference == cur.total - prev.total
        cpuUsage == 100 - DoubleTilde(JsDivide(100 * idleDifference, totalDifference))
    IN  ClampPercent(cpuUsage)

\* The value returned on the first call (main.js:154).
FirstCallUsage == 0

\* The truthiness test `if (previousCpuInfo)`.
HasPrevious(prev) == prev # Null

\* No first-call case: a missing previous sample counts as the zero sample.
CpuUsageValueZeroBaseline(prev, cur) ==
    UsageFromDelta(IF HasPrevious(prev) THEN prev ELSE [idle |-> 0, total |-> 0], cur)

\* The return value of getCpuUsage for stored sample prev and reading cur.
CpuUsageValue(prev, cur) ==
    IF HasPrevious(prev) THEN UsageFromDelta(prev, cur) ELSE FirstCallUsage

\* The previous sample stored by the first call only, never replaced later.
StoredOnFirstCallOnly(prev, cur) == IF HasPrevious(prev) THEN prev ELSE cur

\* The sample stored as previousCpuInfo by a call that read cur
\* (main.js:150 and main.js:153).
StoredAfterCall(prev, cur) == cur

\* One getCpuUsage call that reads cpus from os.cpus().
getCpuUsage(cpus) ==
    LET cur == CurrentCpuInfoOf(cpus)
    IN  /\ cpuUsageReturned' = CpuUsageValue(previousCpuInfo, cur)
        /\ previousCpuInfo' = StoredAfterCall(previousCpuInfo, cur)
        /\ currentCpuInfo' = cur
        /\ priorCpuInfo' = currentCpuInfo
        /\ entryCpuInfo' = previousCpuInfo
        /\ cpuCalls' = IF cpuCalls = 0 THEN 1 ELSE 2

\* ------------------------------------------------------------------------
\* performanceHistory and addToHistory (main.js:11-26)
\* ------------------------------------------------------------------------

\* performanceHistory.maxDataPoints (main.js:14).
maxDataPoints == 60

\* The two tracked metrics.
HistoryTypes == {"cpu", "memory"}

\* The identities of the arrays: the two arrays held by the const
\* performanceHistory object, and the two arrays of the latest snapshot.
ArrayIds == {"history.cpu", "history.memory", "snapshot.cpu", "snapshot.memory"}

\* performanceHistory[type]: the array the const object holds for a metric.
performanceHistory(type) == IF type = "cpu" THEN "history.cpu" ELSE "history.memory"

\* addToHistory that never evicts.
AddToHistoryNoEviction(h, type, value) ==
    [h EXCEPT ![performanceHistory(type)] = Append(@, value)]

\* addToHistory that evicts the newest value instead of the oldest.
AddToHistoryEvictsNewest(h, type, value) ==
    LET pushed == Append(h[performanceHistory(type)], value)
    IN  [h EXCEPT ![performanceHistory(type)] =
            IF Len(pushed) > maxDataPoints
            THEN SubSeq(pushed, 1, Len(pushed) - 1)
            ELSE pushed]

\* The heap after addToHistory(type, value): push, then shift when the
\* length exceeds maxDataPoints.
AddToHistory(h, type, value) ==
    LET pushed == Append(h[performanceHistory(type)], value)
    IN  [h EXCEPT ![performanceHistory(type)] =
            IF Len(pushed) > maxDataPoints THEN Tail(pushed) ELSE pushed]

\* The contents of the spread copy [...performanceHistory[type]] (main.js:474-475).
SpreadOfHistory(h, type) == h[performanceHistory(type)]

\* The value the test drive passes in its k-th push to one buffer.
PushValue(k) == 10 + pushStep * (k - 1)

\* One direct addToHistory call of the test drive.
addToHistory(type) ==
    /\ Len(pushLog[type]) < MaxPushes
    /\ LET value == PushValue(Len(pushLog[type]) + 1)
       IN  /\ heap' = AddToHistory(heap, type, value)
           /\ pushLog' = [pushLog EXCEPT ![type] = Append(@, value)]

\* ------------------------------------------------------------------------
\* Shell-backed fetches used by the handler
\* ------------------------------------------------------------------------

\* Math.round(k * Math.random()) for a draw of r hundredths (r in 0..99).
RoundScaled(k, r) == (k * r + 50) \div 100

\* What execSync of the GPU query can do: throw (non-zero exit, timeout), or
\* return text in which /Name=(.+)/ matches a name or matches nothing (Null).
GpuShellOutcomes ==
    {[throws |-> TRUE], [throws |-> FALSE, nameMatch |-> [text |-> "GPU-A"]],
     [throws |-> FALSE, nameMatch |-> Null]}

\* getGPUInfo (main.js:333-360) for a shell outcome and two random draws.
getGPUInfo(shell, rTemp, rUsage) ==
    IF ~shell.throws /\ shell.nameMatch # Null
    THEN [name |-> shell.nameMatch.text, memory |-> "Unknown",
          temperature |-> 25 + RoundScaled(15, rTemp), usage |-> RoundScaled(30, rUsage)]
    ELSE [name |-> "Integrated Graphics", memory |-> "Shared",
          temperature |-> 30 + RoundScaled(10, rTemp), usage |-> RoundScaled(20, rUsage)]

\* What execSync of `netsh wlan show interfaces` can do: throw, or return
\* text with or without an SSID line and with or without a Signal line.
NetShellOutcomes ==
    {[throws |-> TRUE],
     [throws |-> FALSE, ssidMatch |-> [text |-> "HomeWifi"], signalMatch |-> [percent |-> 88]],
     [throws |-> FALSE, ssidMatch |-> [text |-> "HomeWifi"], signalMatch |-> Null],
     [throws |-> FALSE, ssidMatch |-> Null, signalMatch |-> Null]}

\* Object.values(os.networkInterfaces()).flat(): loopback only, loopback
\* with one IPv6-only adapter, loopback with one IPv4 adapter.
NetworkInterfaceInputs ==
    {<<[family |-> "IPv4", internal |-> TRUE]>>,
     <<[family |-> "IPv4", internal |-> TRUE], [family |-> "IPv6", internal |-> FALSE]>>,
     <<[family |-> "IPv4", internal |-> TRUE], [family |-> "IPv4", internal |-> FALSE]>>}

\* The filter that counts internal interfaces too.
ActiveInterfacesAnyIPv4(networkInterfaces) ==
    Len(SelectSeq(networkInterfaces, LAMBDA iface : iface.family = "IPv4"))

\* activeInterfaces.length of the fallback (main.js:316-318).
ActiveInterfaces(networkInterfaces) ==
    Len(SelectSeq(networkInterfaces,
                  LAMBDA iface : iface.family = "IPv4" /\ ~iface.internal))

\* getNetworkInfo (main.js:291-330) for a shell outcome, the interfaces the
\* OS lists, and two random draws.
getNetworkInfo(shell, networkInterfaces, rDown, rUp) ==
    LET activeInterfaces == ActiveInterfaces(networkInterfaces) IN
    IF ~shell.throws /\ shell.ssidMatch # Null
    THEN [ssid |-> shell.ssidMatch.text,
          signalStrength |-> IF shell.signalMatch # Null THEN shell.signalMatch.percent ELSE 75,
          networkType |-> "802.11n",
          isConnected |-> TRUE,
          downloadSpeed |-> 10 + RoundScaled(50, rDown),
          uploadSpeed |-> 5 + RoundScaled(20, rUp)]
    ELSE [ssid |-> IF activeInterfaces > 0 THEN "Connected" ELSE "Not Connected",
          signalStrength |-> IF activeInterfaces > 0 THEN 75 ELSE 0,
          networkType |-> "Ethernet",
          isConnected |-> activeInterfaces > 0,
          downloadSpeed |-> 5 + RoundScaled(30, rDown),
          uploadSpeed |-> 2 + RoundScaled(15, rUp)]

\* A key the wmic output has no line for, or a line with an empty value
\* (`if (key && value)` skips it): the parsed object has no such property.
Missing == ""

\* x || 'Unknown' for a parsed property.
OrUnknown(value) == IF value = Missing THEN "Unknown" ELSE value

\* What execSync of the wmic cpu query can do: throw, or return text whose
\* key=value lines give every property, or none.
CpuShellOutcomes ==
    {[throws |-> TRUE],
     [throws |-> FALSE,
      cpuInfo |-> [Name |-> "CPU-A", Manufacturer |-> "MakerA", NumberOfCores |-> "4",
                   NumberOfLogicalProcessors |-> "8", MaxClockSpeed |-> "3000"]],
     [throws |-> FALSE,
      cpuInfo |-> [Name |-> Missing, Manufacturer |-> Missing, NumberOfCores |-> Missing,
                   NumberOfLogicalProcessors |-> Missing, MaxClockSpeed |-> Missing]]}

\* getDetailedCPUInfo (main.js:169-207).
getDetailedCPUInfo(shell) ==
    IF ~shell.throws
    THEN [name |-> OrUnknown(shell.cpuInfo.Name),
          manufacturer |-> OrUnknown(shell.cpuInfo.Manufacturer),
          cores |-> OrUnknown(shell.cpuInfo.NumberOfCores),
          logicalProcessors |-> OrUnknown(shell.cpuInfo.NumberOfLogicalProcessors),
          maxClockSpeed |-> IF shell.cpuInfo.MaxClockSpeed # Missing
                            THEN shell.cpuInfo.MaxClockSpeed \o " MHz" ELSE "Unknown",
          architecture |-> "x64", l2Cache |-> "Unknown", l3Cache |-> "Unknown"]
    ELSE [name |-> "Unknown", manufacturer |-> "Unknown", cores |-> "Unknown",
          logicalProcessors |-> "Unknown", maxClockSpeed |-> "Unknown",
          architecture |-> "Unknown", l2Cache |-> "Unknown", l3Cache |-> "Unknown"]

\* getMemoryType (main.js:252-261).
getMemoryType(typeNumber) ==
    CASE typeNumber = "20" -> "DDR"
      [] typeNumber = "21" -> "DDR2"
      [] typeNumber = "24" -> "DDR3"
      [] typeNumber = "26" -> "DDR4"
      [] typeNumber = "34" -> "DDR5"
      [] OTHER -> "Type " \o (IF typeNumber = Missing THEN "undefined" ELSE typeNumber)

\* What execSync of the wmic memorychip query can do: throw, or return text
\* describing the installed sticks (Capacity counted in GiB, 0 for a stick
\* without a Capacity line).
RamShellOutcomes ==
    {[throws |-> TRUE],
     [throws |-> FALSE,
      memorySticks |-> <<[BankLabel |-> "BANK 0", Capacity |-> 8, Speed |-> "3200",
                          MemoryType |-> "26"]>>],
     [throws |-> FALSE,
      memorySticks |-> <<[BankLabel |-> "BANK 0", Capacity |-> 8, Speed |-> "3200",
                          MemoryType |-> "26"],
                         [BankLabel |-> "BANK 1", Capacity |-> 0, Speed |-> Missing,
                          MemoryType |-> "99"]>>]}

\* getDetailedRAMInfo with a catch block that returns one placeholder stick.
getDetailedRAMInfoPlaceholderOnFailure(shell) ==
    IF ~shell.throws
    THEN [i \in DOMAIN shell.memorySticks |->
             LET stick == shell.memorySticks[i] IN
             [bankLabel |-> OrUnknown(stick.BankLabel),
              capacity |-> IF stick.Capacity # 0
                           THEN ToString(stick.Capacity) \o " GB" ELSE "Unknown",
              speed |-> IF stick.Speed # Missing THEN stick.Speed \o " MHz" ELSE "Unknown",
              memoryType |-> OrUnknown(getMemoryType(stick.MemoryType))]]
    ELSE <<[bankLabel |-> "Unknown", capacity |-> "Unknown", speed |-> "Unknown",
            memoryType |-> "Unknown"]>>

\* getDetailedRAMInfo (main.js:210-249).
getDetailedRAMInfo(shell) ==
    IF ~shell.throws
    THEN [i \in DOMAIN shell.memorySticks |->
             LET stick == shell.memorySticks[i] IN
             [bankLabel |-> OrUnknown(stick.BankLabel),
              capacity |-> IF stick.Capacity # 0
                           THEN ToString(stick.Capacity) \o " GB" ELSE "Unknown",
              speed |-> IF stick.Speed # Missing THEN stick.Speed \o " MHz" ELSE "Unknown",
              memoryType |-> OrUnknown(getMemoryType(stick.MemoryType))]]
    ELSE <<>>

\* What execSync of the wmic baseboard query can do: throw, or return text
\* with both properties, or with the product only.
BoardShellOutcomes ==
    {[throws |-> TRUE],
     [throws |-> FALSE, motherboardInfo |-> [Manufacturer |-> "BoardMaker", Product |-> "B550"]],
     [throws |-> FALSE, motherboardInfo |-> [Manufacturer |-> Missing, Product |-> "B550"]]}

\* getMotherboardInfo (main.js:264-290).
getMotherboardInfo(shell) ==
    IF ~shell.throws
    THEN [manufacturer |-> OrUnknown(shell.motherboardInfo.Manufacturer),
          product |-> OrUnknown(shell.motherboardInfo.Product)]
    ELSE [manufacturer |-> "Unknown", product |-> "Unknown"]

\* What execSync of the wmic logicaldisk query can do: throw (non-zero exit,
\* timeout), or return text from which the FreeSpace= and Size= lines parse
\* to these numbers (0 for a line that is absent or unparsable:
\* parseInt(...) || 0). Space is counted in GiB.
DiskShellOutcomes ==
    {[throws |-> TRUE],
     [throws |-> FALSE, freeSpace |-> 0, totalSpace |-> 0],
     [throws |-> FALSE, freeSpace |-> 128, totalSpace |-> 0],
     [throws |-> FALSE, freeSpace |-> 128, totalSpace |-> 512],
     [throws |-> FALSE, freeSpace |-> 256, totalSpace |-> 512],
     [throws |-> FALSE, freeSpace |-> 1024, totalSpace |-> 512]}

\* The fallback object of getDiskUsage (main.js:410-416).
DiskFallback == [usagePercentage |-> 45, totalGB |-> 500, freeGB |-> 275, usedGB |-> 225]

\* getDiskUsage answering with a remembered reading instead of the shell's.
getDiskUsageRemembered(shell) ==
    IF ~shell.throws /\ shell.totalSpace > 0
    THEN [usagePercentage |-> 75, totalGB |-> 512, freeGB |-> 128, usedGB |-> 384]
    ELSE DiskFallback

\* getDiskUsage with a fallback object of zeros.
getDiskUsageZeroFallback(shell) ==
    IF ~shell.throws /\ shell.totalSpace > 0
    THEN [usagePercentage |-> ((shell.totalSpace - shell.freeSpace) * 100) \div shell.totalSpace,
          totalGB |-> shell.totalSpace,
          freeGB |-> shell.freeSpace,
          usedGB |-> shell.totalSpace - shell.freeSpace]
    ELSE [usagePercentage |-> 0, totalGB |-> 0, freeGB |-> 0, usedGB |-> 0]

\* getDiskUsage (main.js:378-417). The disk inputs keep the used space a
\* multiple of a quarter of the size, where Math.round(x * 100) / 100 of the
\* percentage and Math.round(x * 10) / 10 of the sizes are these integers.
getDiskUsage(shell) ==
    IF ~shell.throws /\ shell.totalSpace > 0
    THEN LET usedSpace == shell.totalSpace - shell.freeSpace IN
         [usagePercentage |-> (usedSpace * 100) \div shell.totalSpace,
          totalGB |-> shell.totalSpace,
          freeGB |-> shell.freeSpace,
          usedGB |-> usedSpace]
    ELSE DiskFallback

\* ------------------------------------------------------------------------
\* ipcMain.handle('get-system-info') (main.js:420-519)
\* ------------------------------------------------------------------------

\* (usedMemory / totalMemory) * 100 for memory counted in MiB. The handler's
\* inputs keep totalMemory a power of two and usedMemory a multiple of
\* totalMemory / 4, where the floating-point result is this exact integer.
MemoryPercentage(totalMemory, freeMemory) ==
    ((totalMemory - freeMemory) * 100) \div totalMemory

\* (bytes / 1024 ** 3).toFixed(1) for memory counted in MiB, as a count of
\* tenths of a GB ("4.0" is 40).
ToFixedGB(memory) == (memory * 10 + 512) \div 1024

\* The categories the documented cache covers (README.md:202-206). main.js
\* declares no cache object and the handler stores no entry: it awaits
\* getGPUInfo() and getNetworkInfo() on every request (main.js:436-445).
CachedCategories == {"gpu", "network"}

\* The snapshot handing out the internal array itself, not a copy.
SnapshotHistoryAliased(type) == performanceHistory(type)

\* The array a snapshot's performanceHistory[type] refers to: the new array
\* made by the spread (main.js:474-475).
SnapshotHistoryRef(type) == IF type = "cpu" THEN "snapshot.cpu" ELSE "snapshot.memory"

\* The handler's calls with the appends moved behind the fetches.
HandlerCallsAppendLast ==
    <<"getCpuUsage", "getGPUInfo", "getDetailedCPUInfo", "getDetailedRAMInfo",
      "getMotherboardInfo", "getNetworkInfo", "getDiskUsage", "getDiskUsage",
      "getDiskUsage", "getDiskUsage", "addToHistory", "addToHistory", "return">>

\* The calls of the handler in the order its statements make them
\* (main.js:426, 433-434, 437, 440-442, 445, 486-489, 451).
HandlerCalls ==
    <<"getCpuUsage", "addToHistory", "addToHistory", "getGPUInfo", "getDetailedCPUInfo",
      "getDetailedRAMInfo", "getMotherboardInfo", "getNetworkInfo", "getDiskUsage",
      "getDiskUsage", "getDiskUsage", "getDiskUsage", "return">>

\* One get-system-info request, run to its return: gap ms after the request
\* before it, with the given readings of the OS and of the shell commands.
\* diskShells are the outcomes of the four getDiskUsage() invocations of the
\* return expression (main.js:486-489), in order.
GetSystemInfo(gap, cpus, totalMemory, freeMemory, gpuShell, netShell, networkInterfaces, cpuShell, ramShell, boardShell, diskShells, r) ==
    LET cur == CurrentCpuInfoOf(cpus)
        usedMemory == totalMemory - freeMemory
        detailedCPU == getDetailedCPUInfo(cpuShell)
        detailedRAM == getDetailedRAMInfo(ramShell)
        motherboardInfo == getMotherboardInfo(boardShell)
        currentCpuUsage == CpuUsageValue(previousCpuInfo, cur)
        cpuPercentage == currentCpuUsage
        memoryPercentage == MemoryPercentage(totalMemory, freeMemory)
        afterCpu == AddToHistory(heap, "cpu", cpuPercentage)
        afterMemory == AddToHistory(afterCpu, "memory", memoryPercentage)
        gpuInfo == getGPUInfo(gpuShell, r, r)
        networkInfo == getNetworkInfo(netShell, networkInterfaces, r, r)
    IN  /\ getCpuUsage(cpus)
        /\ pushLog' = [pushLog EXCEPT !["cpu"] = Append(@, cpuPercentage),
                                      !["memory"] = Append(@, memoryPercentage)]
        /\ gpuFetches' = gpuFetches + 1
        /\ networkFetches' = networkFetches + 1
        /\ heap' = [afterMemory EXCEPT
                       !["snapshot.cpu"] = SpreadOfHistory(afterMemory, "cpu"),
                       !["snapshot.memory"] = SpreadOfHistory(afterMemory, "memory")]
        /\ snapshot' =
              [cpuUsage |-> currentCpuUsage,
               gpuName |-> gpuInfo.name,
               gpuMemory |-> gpuInfo.memory,
               gpuTemperature |-> gpuInfo.temperature,
               gpuUsage |-> gpuInfo.usage,
               memoryUsage |-> memoryPercentage,
               totalMemory |-> ToFixedGB(totalMemory),
               freeMemory |-> ToFixedGB(freeMemory),
               usedMemory |-> ToFixedGB(usedMemory),
               performanceHistory |->
                   [type \in HistoryTypes |-> SnapshotHistoryRef(type)],
               detailedHardware |->
                   [cpu |-> detailedCPU, memory |-> detailedRAM,
                    motherboard |-> motherboardInfo],
               storageUsage |-> getDiskUsage(diskShells[1]).usagePercentage,
               storageTotalGB |-> getDiskUsage(diskShells[2]).totalGB,
               storageFreeGB |-> getDiskUsage(diskShells[3]).freeGB,
               storageUsedGB |-> getDiskUsage(diskShells[4]).usedGB,
               networkSSID |-> networkInfo.ssid,
               networkSignal |-> networkInfo.signalStrength,
               networkType |-> networkInfo.networkType,
               networkConnected |-> networkInfo.isConnected,
               downloadSpeed |-> networkInfo.downloadSpeed,
               uploadSpeed |-> networkInfo.uploadSpeed]
        /\ snapshotTouched' = FALSE
        /\ now' = now + gap
        /\ prevPollAt' = now
        /\ pollCount' = pollCount + 1
        /\ diskFetches' = diskFetches + Len(diskShells)
        /\ pollTrace' = HandlerCalls
        /\ pollInputs' =
              [cpus |-> cpus, totalMemory |-> totalMemory, freeMemory |-> freeMemory,
               gpuShell |-> gpuShell, netShell |-> netShell,
               networkInterfaces |-> networkInterfaces, cpuShell |-> cpuShell,
               ramShell |-> ramShell, boardShell |-> boardShell,
               diskShells |-> diskShells, r |-> r]
        /\ UNCHANGED <<pushStep, everMutated, cacheEntries, rendererVars, launchVars, windowVars, nameVars>>

\* The mutations a consumer applies to an array it was handed.
ConsumerMutations == {"push", "clear"}

\* The consumer of the latest snapshot mutates one of its history arrays,
\* once per snapshot.
ConsumerMutatesHistory(type, mutation) ==
    /\ snapshot # Null
    /\ ~snapshotTouched
    /\ heap' = [heap EXCEPT ![snapshot.performanceHistory[type]] =
                    IF mutation = "push" THEN Append(@, -1) ELSE <<>>]
    /\ snapshotTouched' = TRUE
    /\ everMutated' = TRUE
    /\ UNCHANGED <<cpuVars, pushLog, pushStep, snapshot, now, prevPollAt, pollCount,
                   gpuFetches, networkFetches, cacheEntries, pollInputs, diskFetches, pollTrace,
                   rendererVars, launchVars, windowVars, nameVars>>

\* ------------------------------------------------------------------------
\* launchMalwarebytes and the launch-malwarebytes handler (main.js:29-66,
\* 522-528)
\* ------------------------------------------------------------------------

\* The probed installation paths, in list order (main.js:32-37; backslashes
\* written as slashes).
malwarebytesPath ==
    <<"C:/Program Files/Malwarebytes/Anti-Malware/mbam.exe",
      "C:/Program Files (x86)/Malwarebytes/Anti-Malware/mbam.exe",
      "C:/Program Files/Malwarebytes/Malwarebytes Anti-Malware/mbam.exe",
      "C:/Program Files (x86)/Malwarebytes/Malwarebytes Anti-Malware/mbam.exe">>

\* The sets of probed paths fs.existsSync can report as existing.
ExistingPathSets == SUBSET {malwarebytesPath[i] : i \in DOMAIN malwarebytesPath}

\* What exec of the start-menu command can do: call back without error,
\* call back with an error, or throw before it started anything.
ExecOutcomes == {"ok", "error", "throws"}

\* The probing loop taking the last existing path of the list.
FoundPathLastExisting(existing) ==
    IF \E i \in DOMAIN malwarebytesPath : malwarebytesPath[i] \in existing
    THEN malwarebytesPath[CHOOSE i \in DOMAIN malwarebytesPath :
                             /\ malwarebytesPath[i] \in existing
                             /\ \A j \in DOMAIN malwarebytesPath :
                                    malwarebytesPath[j] \in existing => j <= i]
    ELSE ""

\* foundPath after the probing loop (main.js:40-46): the first path of the
\* list that exists, "" for null.
FoundPath(existing) ==
    IF \E i \in DOMAIN malwarebytesPath : malwarebytesPath[i] \in existing
    THEN malwarebytesPath[CHOOSE i \in DOMAIN malwarebytesPath :
                             /\ malwarebytesPath[i] \in existing
                             /\ \A j \in DOMAIN malwarebytesPath :
                                    malwarebytesPath[j] \in existing => i <= j]
    ELSE ""

\* launchMalwarebytes (main.js:29-66): how the promise settles, with the
\* path handed to spawn ("" when none) and whether exec was called.
launchMalwarebytes(existing, spawnThrows, execOutcome) ==
    LET foundPath == FoundPath(existing) IN
    IF foundPath # ""
    THEN IF spawnThrows
         THEN [rejects |-> TRUE, success |-> FALSE, message |-> "spawn UNKNOWN",
               spawned |-> foundPath, fallback |-> FALSE]
         ELSE [rejects |-> FALSE, success |-> TRUE,
               message |-> "Malwarebytes launched successfully",
               spawned |-> foundPath, fallback |-> FALSE]
    ELSE CASE execOutcome = "throws" ->
                 [rejects |-> TRUE, success |-> FALSE, message |-> "exec UNKNOWN",
                  spawned |-> "", fallback |-> TRUE]
           [] execOutcome = "error" ->
                 [rejects |-> FALSE, success |-> FALSE,
                  message |-> "Malwarebytes not found. Please install Malwarebytes Anti-Malware.",
                  spawned |-> "", fallback |-> TRUE]
           [] OTHER ->
                 [rejects |-> FALSE, success |-> TRUE,
                  message |-> "Malwarebytes launched successfully",
                  spawned |-> "", fallback |-> TRUE]

\* What ipcMain.handle('launch-malwarebytes') returns (main.js:522-528).
LaunchHandlerResult(settled) ==
    IF settled.rejects
    THEN [success |-> FALSE, message |-> settled.message]
    ELSE [success |-> settled.success, message |-> settled.message]

\* The main process handles the launch request under way.
HandleLaunchRequest(existing, spawnThrows, execOutcome) ==
    /\ launchRequest # Null
    /\ launchRequest.state = "sent"
    /\ LET settled == launchMalwarebytes(existing, spawnThrows, execOutcome) IN
        /\ lastLaunch' = [existing |-> existing, spawnThrows |-> spawnThrows,
                          execOutcome |-> execOutcome, settled |-> settled,
                          returned |-> LaunchHandlerResult(settled)]
        /\ launchRequest' = [state |-> "answered", result |-> LaunchHandlerResult(settled)]
    /\ UNCHANGED <<launchDisabled, launchBtnText, launchStatus, launchResetTimer,
                   mainVars, rendererVars, windowVars, nameVars>>

\* ------------------------------------------------------------------------
\* Windows and the window-control handlers (main.js:68-124)
\* ------------------------------------------------------------------------

\* Bound of the window model: createWindow() calls.
MaxWindows == 4

Platforms == {"darwin", "win32", "linux"}

WindowChannels == {"minimize-window", "close-window", "maximize-window"}

\* The window a window-control handler acts on: the mainWindow constant of
\* the whenReady callback (main.js:98-115).
TargetWindow(captured, open) == captured

\* app.whenReady() resolves (main.js:97-116): the first window is created
\* and the three handlers are registered over it.
WhenReady ==
    /\ appState = "starting"
    /\ appState' = "running"
    /\ windowsCreated' = windowsCreated + 1
    /\ openWindows' = openWindows \cup {windowsCreated + 1}
    /\ mainWindow' = windowsCreated + 1
    /\ UNCHANGED <<platform, minimizedWindows, maximizedWindows, lastWindowRequest,
                   mainVars, rendererVars, launchVars, nameVars>>

\* appState once window w is gone: 'window-all-closed' quits the app
\* everywhere but on macOS (main.js:118-120).
AppStateAfterClose(open) ==
    IF open = {} /\ platform # "darwin" THEN "quit" ELSE appState

\* The page of open window `sender` invokes a window-control channel. A
\* handler whose window is destroyed throws, and the invoke rejects.
WindowControlRequest(channel, sender) ==
    /\ appState = "running"
    /\ sender \in openWindows
    /\ LET target == TargetWindow(mainWindow, openWindows)
           alive == target \in openWindows
       IN  /\ lastWindowRequest' = [channel |-> channel, sender |-> sender, target |-> target,
                                    open |-> openWindows, threw |-> ~alive]
           /\ IF ~alive
              THEN UNCHANGED <<appState, openWindows, minimizedWindows, maximizedWindows>>
              ELSE CASE channel = "minimize-window" ->
                            /\ minimizedWindows' = minimizedWindows \cup {target}
                            /\ UNCHANGED <<appState, openWindows, maximizedWindows>>
                     [] channel = "close-window" ->
                            /\ openWindows' = openWindows \ {target}
                            /\ minimizedWindows' = minimizedWindows \ {target}
                            /\ maximizedWindows' = maximizedWindows \ {target}
                            /\ appState' = AppStateAfterClose(openWindows \ {target})
                     [] OTHER ->
                            /\ maximizedWindows' =
                                   IF target \in maximizedWindows
                                   THEN maximizedWindows \ {target}
                                   ELSE maximizedWindows \cup {target}
                            /\ UNCHANGED <<appState, openWindows, minimizedWindows>>
    /\ UNCHANGED <<platform, mainWindow, windowsCreated,
                   mainVars, rendererVars, launchVars, nameVars>>

\* The user brings a minimized window back from the dock or task bar.
RestoreWindow(w) ==
    /\ appState = "running"
    /\ w \in minimizedWindows
    /\ minimizedWindows' = minimizedWindows \ {w}
    /\ UNCHANGED <<platform, appState, openWindows, mainWindow, windowsCreated, maximizedWindows,
                   lastWindowRequest, mainVars, rendererVars, launchVars, nameVars>>

\* The operating system closes window w (Cmd+W, Alt+F4, task bar).
SystemClosesWindow(w) ==
    /\ appState = "running"
    /\ w \in openWindows
    /\ openWindows' = openWindows \ {w}
    /\ minimizedWindows' = minimizedWindows \ {w}
    /\ maximizedWindows' = maximizedWindows \ {w}
    /\ appState' = AppStateAfterClose(openWindows \ {w})
    /\ UNCHANGED <<platform, mainWindow, windowsCreated, lastWindowRequest,
                   mainVars, rendererVars, launchVars, nameVars>>

\* The 'activate' event of macOS (main.js:122-124): a window is created
\* when none exists; what createWindow() returns is dropped.
Activate ==
    /\ appState = "running"
    /\ platform = "darwin"
    /\ windowsCreated < MaxWindows
    /\ IF openWindows = {}
       THEN /\ windowsCreated' = windowsCreated + 1
            /\ openWindows' = {windowsCreated + 1}
       ELSE UNCHANGED <<windowsCreated, openWindows>>
    /\ UNCHANGED <<platform, appState, mainWindow, minimizedWindows, maximizedWindows,
                   lastWindowRequest, mainVars, rendererVars, launchVars, nameVars>>

\* The main process before app.whenReady() resolves.
WindowInit(os) ==
    /\ platform = os
    /\ appState = "starting"
    /\ openWindows = {}
    /\ mainWindow = 0
    /\ windowsCreated = 0
    /\ minimizedWindows = {}
    /\ maximizedWindows = {}
    /\ lastWindowRequest = Null

\* ------------------------------------------------------------------------
\* Renderer: the launch button (renderer.js:560-609)
\* ------------------------------------------------------------------------

\* A click on the enabled launch button, up to the await. exposed: the
\* preload script exposes electronAPI.launchMalwarebytes; where it does not
\* (README.md:243-247 lists no such entry) the call throws and the catch
\* block runs at once (renderer.js:601-607).
ClickLaunch(exposed) ==
    /\ domReady
    /\ ~launchDisabled
    /\ IF exposed
       THEN /\ launchDisabled' = TRUE
            /\ launchBtnText' = "Launching..."
            /\ launchStatus' = "Starting Malwarebytes..."
            /\ launchRequest' = [state |-> "sent"]
       ELSE /\ launchDisabled' = FALSE
            /\ launchBtnText' = "Launch Malwarebytes"
            /\ launchStatus' = "Failed to launch Malwarebytes"
            /\ launchRequest' = Null
    /\ UNCHANGED <<launchResetTimer, lastLaunch, mainVars, rendererVars, windowVars, nameVars>>

\* The awaited request settles and the click handler runs to its end
\* (renderer.js:573-607). rejected: the invoke rejects instead of delivering
\* the handler's result.
LaunchResponse(rejected) ==
    /\ launchRequest # Null
    /\ launchRequest.state = "answered"
    /\ launchRequest' = Null
    /\ launchBtnText' = "Launch Malwarebytes"
    /\ IF rejected
       THEN /\ launchStatus' = "Failed to launch Malwarebytes"
            /\ launchDisabled' = FALSE
            /\ launchResetTimer' = launchResetTimer
       ELSE IF launchRequest.result.success
            THEN /\ launchStatus' = "Malwarebytes launched successfully!"
                 /\ launchDisabled' = launchDisabled
                 /\ launchResetTimer' = 3000
            ELSE /\ launchStatus' = launchRequest.result.message
                 /\ launchDisabled' = launchDisabled
                 /\ launchResetTimer' = 5000
    /\ UNCHANGED <<lastLaunch, mainVars, rendererVars, windowVars, nameVars>>

\* The reset setTimeout fires (renderer.js:583-587, 595-599).
LaunchResetFires ==
    /\ launchResetTimer # 0
    /\ launchResetTimer' = 0
    /\ launchStatus' = "Ready to launch"
    /\ launchDisabled' = FALSE
    /\ UNCHANGED <<launchBtnText, launchRequest, lastLaunch, mainVars, rendererVars, windowVars,
                   nameVars>>

\* The launch card as the page shows it before any click.
LaunchInit ==
    /\ launchDisabled = FALSE
    /\ launchBtnText = "Launch Malwarebytes"
    /\ launchStatus = "Ready to launch"
    /\ launchRequest = Null
    /\ launchResetTimer = 0
    /\ lastLaunch = Null

\* ------------------------------------------------------------------------
\* Renderer: name customization (renderer.js:123-188)
\* ------------------------------------------------------------------------

\* The texts a user types into name-input.
NameTexts == {"", "  ", "Bob", " Cy ", "Dee", "Eve"}

\* String.prototype.trim on the texts of the model.
Trim(text) ==
    CASE text = "  " -> ""
      [] text = " Cy " -> "Cy"
      [] OTHER -> text

\* The body of initializeNameCustomization that runs at once
\* (renderer.js:131-139); the listeners it attaches are the actions below.
initializeNameCustomization ==
    /\ savedName' = storedName
    /\ IF storedName # ""
       THEN /\ userDisplayName' = storedName
            /\ nameSetupHidden' = nameSetupHidden
            /\ editNameBtnDisplay' = editNameBtnDisplay
       ELSE /\ userDisplayName' = userDisplayName
            /\ nameSetupHidden' = FALSE
            /\ editNameBtnDisplay' = "none"
    /\ UNCHANGED <<storedName, nameInput>>

\* A click on the edit-name button, which must be displayed to be clicked
\* (renderer.js:142-146).
ClickEditName ==
    /\ domReady
    /\ editNameBtnDisplay # "none"
    /\ nameSetupHidden' = FALSE
    /\ nameInput' = userDisplayName
    /\ UNCHANGED <<storedName, savedName, userDisplayName, editNameBtnDisplay,
                   mainVars, rendererVars, launchVars, windowVars>>

\* The user types into name-input, which is part of the setup panel.
TypeName(text) ==
    /\ domReady
    /\ ~nameSetupHidden
    /\ nameInput' = text
    /\ UNCHANGED <<storedName, savedName, userDisplayName, nameSetupHidden, editNameBtnDisplay,
                   mainVars, rendererVars, launchVars, windowVars>>

\* saveName (renderer.js:149-158), reached from the panel.
saveName ==
    /\ domReady
    /\ ~nameSetupHidden
    /\ LET newName == Trim(nameInput) IN
        IF newName # ""
        THEN /\ userDisplayName' = newName
             /\ storedName' = newName
             /\ nameSetupHidden' = TRUE
             /\ editNameBtnDisplay' = "flex"
             /\ nameInput' = ""
        ELSE UNCHANGED <<userDisplayName, storedName, nameSetupHidden, editNameBtnDisplay,
                         nameInput>>
    /\ UNCHANGED <<savedName, mainVars, rendererVars, launchVars, windowVars>>

\* cancelEdit (renderer.js:161-167), reached from the panel.
cancelEdit ==
    /\ domReady
    /\ ~nameSetupHidden
    /\ nameSetupHidden' = TRUE
    /\ nameInput' = ""
    /\ editNameBtnDisplay' =
           IF savedName # "" \/ storedName # "" THEN "flex" ELSE editNameBtnDisplay
    /\ UNCHANGED <<storedName, savedName, userDisplayName,
                   mainVars, rendererVars, launchVars, windowVars>>

\* The name elements as the page shows them before the script runs: the
\* panel carries 'hidden' (the script removes the class to show it) and the
\* edit button has no inline display; localStorage holds stored.
NameInit(stored) ==
    /\ storedName = stored
    /\ savedName = ""
    /\ userDisplayName = "User"
    /\ nameSetupHidden = TRUE
    /\ editNameBtnDisplay = ""
    /\ nameInput = ""

\* ------------------------------------------------------------------------
\* Renderer: auto-refresh and updateSystemInfo (renderer.js:190-241, 260-504,
\* 507-614)
\* ------------------------------------------------------------------------

\* refreshInterval = null (renderer.js:192); timer ids are positive.
NoTimer == 0

\* The elements the model follows: the four the catch block writes, the
\* status text the toggle writes, and one element of each other group.
ErrorFields == {"hostname", "cpu-usage", "memory-usage", "memory-details"}

DisplayFields ==
    ErrorFields \cup {"uptime", "storage-usage", "gpu-usage", "network-name",
                      "cpu-history-chart", "mb-product", "refresh-status"}

\* The snapshots a getSystemInfo() response can carry.
DisplaySnapshots ==
    {[hostname |-> "PC-A", uptime |-> "1h 0m", cpuUsage |-> 25, memoryUsage |-> 50,
      usedMemory |-> "2.0", totalMemory |-> "4.0", freeMemory |-> "2.0",
      storageUsage |-> 45, gpuUsage |-> 10, networkSSID |-> "HomeWifi",
      performanceHistory |-> <<25>>, product |-> "B550"],
     [hostname |-> "PC-A", uptime |-> "1h 1m", cpuUsage |-> 75, memoryUsage |-> 25,
      usedMemory |-> "1.0", totalMemory |-> "4.0", freeMemory |-> "3.0",
      storageUsage |-> 75, gpuUsage |-> 30, networkSSID |-> "Connected",
      performanceHistory |-> <<25, 75>>, product |-> "Unknown"]}

\* What awaiting getSystemInfo() can do: resolve with a snapshot, or reject.
ResponseOutcomes ==
    {[throws |-> TRUE]} \cup {[throws |-> FALSE, data |-> data] : data \in DisplaySnapshots}

\* The try block leaving the error texts of an earlier failure in place.
RenderSnapshotKeepsErrorTexts(shown, data, enabled) ==
    [field \in DisplayFields |->
        CASE field = "hostname" ->
                IF data.hostname = "" \/ shown[field] = "Error loading hostname"
                THEN shown[field]
                ELSE IF enabled THEN data.hostname ELSE data.hostname \o " (Paused)"
          [] field = "uptime" -> data.uptime
          [] field = "cpu-usage" ->
                IF shown[field] = "Error" THEN "Error" ELSE ToString(data.cpuUsage) \o "%"
          [] field = "memory-usage" ->
                IF shown[field] = "Error" THEN "Error" ELSE ToString(data.memoryUsage) \o "%"
          [] field = "memory-details" ->
                data.usedMemory \o " GB used of " \o data.totalMemory \o " GB ("
                    \o data.freeMemory \o " GB free)"
          [] field = "storage-usage" -> ToString(data.storageUsage) \o "%"
          [] field = "gpu-usage" -> ToString(data.gpuUsage) \o "%"
          [] field = "network-name" -> data.networkSSID
          [] field = "cpu-history-chart" -> ToString(data.performanceHistory)
          [] field = "mb-product" -> data.product
          [] OTHER -> shown[field]]

\* The try block of updateSystemInfo after the await (renderer.js:265-495):
\* the texts shown once a snapshot has been rendered.
RenderSnapshot(shown, data, enabled) ==
    [field \in DisplayFields |->
        CASE field = "hostname" ->
                IF data.hostname = "" THEN shown[field]
                ELSE IF enabled THEN data.hostname ELSE data.hostname \o " (Paused)"
          [] field = "uptime" -> data.uptime
          [] field = "cpu-usage" -> ToString(data.cpuUsage) \o "%"
          [] field = "memory-usage" -> ToString(data.memoryUsage) \o "%"
          [] field = "memory-details" ->
                data.usedMemory \o " GB used of " \o data.totalMemory \o " GB ("
                    \o data.freeMemory \o " GB free)"
          [] field = "storage-usage" -> ToString(data.storageUsage) \o "%"
          [] field = "gpu-usage" -> ToString(data.gpuUsage) \o "%"
          [] field = "network-name" -> data.networkSSID
          [] field = "cpu-history-chart" -> ToString(data.performanceHistory)
          [] field = "mb-product" -> data.product
          [] OTHER -> shown[field]]

\* A catch block that writes 'Error' to every element.
RenderErrorEverywhere(shown) == [field \in DisplayFields |-> "Error"]

\* The catch block of updateSystemInfo (renderer.js:497-503).
RenderError(shown) ==
    [shown EXCEPT !["cpu-usage"] = "Error",
                  !["memory-usage"] = "Error",
                  !["memory-details"] = "Error loading memory data",
                  !["hostname"] = "Error loading hostname"]

\* stopAutoRefresh forgetting the timer without clearing it.
TimersAfterStopNotCleared(timers, interval) == timers

\* The timers left set by stopAutoRefresh (renderer.js:236-241).
TimersAfterStop(timers, interval) == timers \ {interval}

\* The timers left set by startAutoRefresh (renderer.js:228-233), which
\* clears the timer refreshInterval names and sets a new one.
TimersAfterStart(timers, interval, id) == (timers \ {interval}) \cup {id}

\* updateSystemInfo up to its await (renderer.js:260-263): a request joins
\* the ones in flight, marked with what started it and with whether the
\* display showed the error text at that moment.
RequestSent(startedBy) ==
    Append(inFlight, [startedBy |-> startedBy, errorShown |-> display["cpu-usage"] = "Error"])

\* The DOMContentLoaded handler (renderer.js:507-614): the name editor is
\* initialised, the toggle and launch listeners are attached,
\* updateSystemInfo() is called and startAutoRefresh() sets the first timer.
DOMContentLoaded ==
    /\ ~domReady
    /\ domReady' = TRUE
    /\ inFlight' = RequestSent("load")
    /\ timersCreated' = timersCreated + 1
    /\ refreshInterval' = timersCreated + 1
    /\ activeTimers' = TimersAfterStart(activeTimers, refreshInterval, timersCreated + 1)
    /\ initializeNameCustomization
    /\ UNCHANGED <<autoRefreshEnabled, display, lastResponse, mainVars, launchVars, windowVars>>

\* A set interval timer fires and calls updateSystemInfo (renderer.js:232).
TimerFires(id) ==
    /\ id \in activeTimers
    /\ Len(inFlight) < MaxInFlight
    /\ inFlight' = RequestSent("timer")
    /\ UNCHANGED <<domReady, autoRefreshEnabled, refreshInterval, activeTimers, timersCreated,
                   display, lastResponse, mainVars, launchVars, windowVars, nameVars>>

\* A click on the toggle: toggleAutoRefresh (renderer.js:205-225).
toggleAutoRefresh ==
    /\ domReady
    /\ autoRefreshEnabled' = ~autoRefreshEnabled
    /\ IF ~autoRefreshEnabled
       THEN /\ timersCreated < MaxTimers
            /\ display' = [display EXCEPT !["refresh-status"] = "Every 2 seconds"]
            /\ timersCreated' = timersCreated + 1
            /\ refreshInterval' = timersCreated + 1
            /\ activeTimers' = TimersAfterStart(activeTimers, refreshInterval, timersCreated + 1)
       ELSE /\ display' = [display EXCEPT !["refresh-status"] = "Paused"]
            /\ timersCreated' = timersCreated
            /\ refreshInterval' = NoTimer
            /\ activeTimers' = TimersAfterStop(activeTimers, refreshInterval)
    /\ UNCHANGED <<domReady, inFlight, lastResponse, mainVars, launchVars, windowVars, nameVars>>

\* The oldest request in flight gets its response and its updateSystemInfo
\* call runs to the end: the try block renders the snapshot, or the catch
\* block writes the error texts (renderer.js:263-503).
ResponseArrives(outcome) ==
    /\ inFlight # <<>>
    /\ inFlight' = Tail(inFlight)
    /\ lastResponse' = [request |-> Head(inFlight), outcome |-> outcome]
    /\ display' = IF outcome.throws
                  THEN RenderError(display)
                  ELSE RenderSnapshot(display, outcome.data, autoRefreshEnabled)
    /\ UNCHANGED <<domReady, autoRefreshEnabled, refreshInterval, activeTimers, timersCreated,
                   mainVars, launchVars, windowVars, nameVars>>

\* The renderer when the script has been evaluated.
RendererInit ==
    /\ domReady = FALSE
    /\ autoRefreshEnabled = TRUE
    /\ refreshInterval = NoTimer
    /\ activeTimers = {}
    /\ timersCreated = 0
    /\ inFlight = <<>>
    /\ display = [field \in DisplayFields |-> ""]
    /\ lastResponse = Null

\* ------------------------------------------------------------------------
\* Initial state and specifications
\* ------------------------------------------------------------------------

\* The state every specification starts the main process and the renderer's
\* refresh loop in.
MainInit ==
    /\ previousCpuInfo = Null
    /\ currentCpuInfo = Null
    /\ priorCpuInfo = Null
    /\ entryCpuInfo = Null
    /\ cpuUsageReturned = 0
    /\ cpuCalls = 0
    /\ heap = [id \in ArrayIds |-> <<>>]
    /\ pushLog = [type \in HistoryTypes |-> <<>>]
    /\ snapshot = Null
    /\ snapshotTouched = FALSE
    /\ everMutated = FALSE
    /\ now = 0
    /\ prevPollAt = 0
    /\ pollCount = 0
    /\ gpuFetches = 0
    /\ networkFetches = 0
    /\ cacheEntries = [category \in CachedCategories |-> Null]
    /\ pollInputs = Null
    /\ diskFetches = 0
    /\ pollTrace = <<>>
    /\ RendererInit

Init ==
    /\ previousCpuInfo = Null
    /\ currentCpuInfo = Null
    /\ priorCpuInfo = Null
    /\ entryCpuInfo = Null
    /\ cpuUsageReturned = 0
    /\ cpuCalls = 0
    /\ heap = [id \in ArrayIds |-> <<>>]
    /\ pushLog = [type \in HistoryTypes |-> <<>>]
    /\ pushStep = 10
    /\ snapshot = Null
    /\ snapshotTouched = FALSE
    /\ everMutated = FALSE
    /\ now = 0
    /\ prevPollAt = 0
    /\ pollCount = 0
    /\ gpuFetches = 0
    /\ networkFetches = 0
    /\ cacheEntries = [category \in CachedCategories |-> Null]
    /\ pollInputs = Null
    /\ diskFetches = 0
    /\ pollTrace = <<>>
    /\ RendererInit
    /\ LaunchInit
    /\ WindowInit("win32")
    /\ NameInit("")

\* The estimator driven by arbitrary sequences of os.cpus() readings.
CallGetCpuUsage == \E cpus \in CpusInputs : getCpuUsage(cpus)

NextCpu == CallGetCpuUsage /\ UNCHANGED <<histVars, pushStep, pollVars, rendererVars, launchVars, windowVars, nameVars>>

SpecCpu == Init /\ [][NextCpu]_vars

\* The history buffers driven by direct addToHistory calls: the values
\* 10, 20, 30, ... (pushStep 10) or one repeated value (pushStep 0).
PushSteps == {0, 10}

InitHist ==
    /\ previousCpuInfo = Null
    /\ currentCpuInfo = Null
    /\ priorCpuInfo = Null
    /\ entryCpuInfo = Null
    /\ cpuUsageReturned = 0
    /\ cpuCalls = 0
    /\ heap = [id \in ArrayIds |-> <<>>]
    /\ pushLog = [type \in HistoryTypes |-> <<>>]
    /\ pushStep \in PushSteps
    /\ snapshot = Null
    /\ snapshotTouched = FALSE
    /\ everMutated = FALSE
    /\ now = 0
    /\ prevPollAt = 0
    /\ pollCount = 0
    /\ gpuFetches = 0
    /\ networkFetches = 0
    /\ cacheEntries = [category \in CachedCategories |-> Null]
    /\ pollInputs = Null
    /\ diskFetches = 0
    /\ pollTrace = <<>>
    /\ RendererInit
    /\ LaunchInit
    /\ WindowInit("win32")
    /\ NameInit("")

CallAddToHistory == \E type \in HistoryTypes : addToHistory(type)

NextHist == CallAddToHistory /\ UNCHANGED <<cpuVars, pushStep, pollVars, rendererVars, launchVars, windowVars, nameVars>>

SpecHist == InitHist /\ [][NextHist]_vars

\* The polls of the main process: requests 1000 ms or 6000 ms apart, four
\* readings of one core, 4096 MiB of memory of which 1024 or 3072 are free,
\* the GPU and wireless queries failing or answering in full, the other
\* shell commands answering in full, one active interface, and every
\* Math.random() draw at 0.99.
PollGaps == {1000, 6000}

PollCpus == {<<c>> : c \in [user : {0, 2}, nice : {0}, sys : {0}, idle : {0, 1}, irq : {0}]}

PollFreeMemory == {1024, 3072}

PollGpuShells == {g \in GpuShellOutcomes : g.throws \/ g.nameMatch # Null}

PollNetShells == {n \in NetShellOutcomes : n.throws \/ n.signalMatch # Null}

PollGpuShell == CHOOSE g \in PollGpuShells : ~g.throws

PollNetShell == CHOOSE n \in PollNetShells : ~n.throws

PollInterfaces == <<[family |-> "IPv4", internal |-> TRUE], [family |-> "IPv4", internal |-> FALSE]>>

PollCpuShell == CHOOSE shell \in CpuShellOutcomes : ~shell.throws /\ shell.cpuInfo.Name # Missing

PollRamShell == CHOOSE shell \in RamShellOutcomes : ~shell.throws /\ Len(shell.memorySticks) = 1

PollBoardShell ==
    CHOOSE shell \in BoardShellOutcomes :
        ~shell.throws /\ shell.motherboardInfo.Manufacturer # Missing

PollDiskShells == [i \in 1..4 |-> [throws |-> FALSE, freeSpace |-> 128, totalSpace |-> 512]]

Poll ==
    /\ pollCount < MaxPolls
    /\ \E gap \in PollGaps, cpus \in PollCpus, freeMemory \in PollFreeMemory,
          gpuShell \in PollGpuShells, netShell \in PollNetShells :
           GetSystemInfo(gap, cpus, 4096, freeMemory, gpuShell, netShell, PollInterfaces,
                         PollCpuShell, PollRamShell, PollBoardShell, PollDiskShells, 99)

ConsumerMutates ==
    \E type \in HistoryTypes, mutation \in ConsumerMutations :
        ConsumerMutatesHistory(type, mutation)

Next == Poll \/ ConsumerMutates

Spec == Init /\ [][Next]_vars

\* A long run of polls, one second apart: more polls than a buffer holds.
\* The first LongVariedPolls polls read any of the two memory levels, the
\* later ones alternate between them; the core's counters keep growing,
\* its idle share alternating as well.
MaxLongPolls == 62

LongVariedPolls == 2

LongCpus(k) == <<[user |-> 2 * k, nice |-> 0, sys |-> 0, idle |-> k + (k % 2), irq |-> 0]>>

LongFreeMemory(k) ==
    IF k < LongVariedPolls THEN PollFreeMemory
    ELSE IF k % 2 = 0 THEN {1024} ELSE {3072}

InitLong ==
    /\ MainInit
    /\ pushStep = 10
    /\ LaunchInit
    /\ WindowInit("win32")
    /\ NameInit("")

PollLong ==
    /\ pollCount < MaxLongPolls
    /\ \E freeMemory \in LongFreeMemory(pollCount) :
           GetSystemInfo(1000, LongCpus(pollCount), 4096, freeMemory, PollGpuShell, PollNetShell,
                         PollInterfaces, PollCpuShell, PollRamShell, PollBoardShell,
                         PollDiskShells, 99)

NextLong == PollLong

SpecLong == InitLong /\ [][NextLong]_vars

\* The polls of the main process under failing collaborators, 2000 ms apart
\* with 4096 MiB of memory. Four families of polls: every combination of
\* failing and answering shell commands; every kind of disk answer, the four
\* getDiskUsage() invocations agreeing or some of them throwing; every kind
\* of wireless answer with every interface list; every kind of answer of the
\* hardware queries.
ShellPollGap == 2000

ShellPollCpus == {<<c>> : c \in {[user |-> 0, nice |-> 0, sys |-> 0, idle |-> 0, irq |-> 0],
                                 [user |-> 3, nice |-> 0, sys |-> 0, idle |-> 1, irq |-> 0]}}

ShellPollDraws == {0, 99}

\* A wireless answer whose Signal line reads 150%.
NetShellOutOfRange ==
    [throws |-> FALSE, ssidMatch |-> [text |-> "HomeWifi"], signalMatch |-> [percent |-> 150]]

\* The four invocations answering alike, or some throwing while the others
\* report 128 of 512 GiB free.
DiskShellInputs ==
    {[i \in 1..4 |-> shell] : shell \in DiskShellOutcomes}
        \cup {[i \in 1..4 |-> IF i \in failing
                               THEN [throws |-> TRUE]
                               ELSE [throws |-> FALSE, freeSpace |-> 128, totalSpace |-> 512]] :
                 failing \in SUBSET (1..4)}

PollShellFailures ==
    /\ pollCount < MaxPolls
    /\ \E gpuShell \in GpuShellOutcomes, netShell \in PollNetShells,
          cpuShell \in {[throws |-> TRUE], PollCpuShell},
          ramShell \in {[throws |-> TRUE], PollRamShell},
          boardShell \in {[throws |-> TRUE], PollBoardShell},
          diskShells \in {[i \in 1..4 |-> [throws |-> TRUE]], PollDiskShells} :
           GetSystemInfo(ShellPollGap, <<[user |-> 3, nice |-> 0, sys |-> 0, idle |-> 1, irq |-> 0]>>,
                         4096, 1024, gpuShell, netShell, PollInterfaces,
                         cpuShell, ramShell, boardShell, diskShells, 50)

PollDiskOutcomes ==
    /\ pollCount < MaxPolls
    /\ \E cpus \in ShellPollCpus, freeMemory \in PollFreeMemory,
          diskShells \in DiskShellInputs :
           GetSystemInfo(ShellPollGap, cpus, 4096, freeMemory, [throws |-> TRUE],
                         [throws |-> TRUE], PollInterfaces,
                         PollCpuShell, PollRamShell, PollBoardShell, diskShells, 50)

PollNetworkOutcomes ==
    /\ pollCount < MaxPolls
    /\ \E netShell \in NetShellOutcomes \cup {NetShellOutOfRange},
          networkInterfaces \in NetworkInterfaceInputs, r \in ShellPollDraws :
           GetSystemInfo(ShellPollGap, <<[user |-> 3, nice |-> 0, sys |-> 0, idle |-> 1, irq |-> 0]>>,
                         4096, 1024, [throws |-> TRUE], netShell, networkInterfaces,
                         PollCpuShell, PollRamShell, PollBoardShell, PollDiskShells, r)

PollHardwareOutcomes ==
    /\ pollCount < MaxPolls
    /\ \E cpuShell \in CpuShellOutcomes, ramShell \in RamShellOutcomes,
          boardShell \in BoardShellOutcomes :
           GetSystemInfo(ShellPollGap, <<[user |-> 3, nice |-> 0, sys |-> 0, idle |-> 1, irq |-> 0]>>,
                         4096, 1024, [throws |-> TRUE], [throws |-> TRUE], PollInterfaces,
                         cpuShell, ramShell, boardShell, PollDiskShells, 50)

NextShell ==
    PollShellFailures \/ PollDiskOutcomes \/ PollNetworkOutcomes \/ PollHardwareOutcomes

SpecShell == Init /\ [][NextShell]_vars

\* The renderer: page load, timer ticks, toggle clicks and responses in any
\* order the event loop allows.
Tick == \E id \in activeTimers : TimerFires(id)

Response == \E outcome \in ResponseOutcomes : ResponseArrives(outcome)

NextRenderer == DOMContentLoaded \/ Tick \/ toggleAutoRefresh \/ Response

SpecRenderer == Init /\ [][NextRenderer]_vars

\* The launch button and the launch-malwarebytes handler: clicks, requests
\* handled for every set of existing paths and every outcome of spawn and
\* exec, responses and reset timeouts.
Click == \E exposed \in BOOLEAN : ClickLaunch(exposed)

HandleLaunch ==
    \E existing \in ExistingPathSets, spawnThrows \in BOOLEAN, execOutcome \in ExecOutcomes :
        HandleLaunchRequest(existing, spawnThrows, execOutcome)

LaunchSettles == \E rejected \in BOOLEAN : LaunchResponse(rejected)

NextLaunch == DOMContentLoaded \/ Click \/ HandleLaunch \/ LaunchSettles \/ LaunchResetFires

SpecLaunch == Init /\ [][NextLaunch]_vars

\* The same with the event loop's guarantees: a request that was sent is
\* handled, a handled request settles, and a set timeout fires. Nothing
\* obliges the user to click.
SpecLaunchFair ==
    /\ Init
    /\ [][NextLaunch]_vars
    /\ WF_vars(HandleLaunch)
    /\ WF_vars(LaunchSettles)
    /\ WF_vars(LaunchResetFires)

\* The name editor, with or without a saved name in localStorage.
StoredNames == {"", "Ann", "Bob"}

InitName ==
    /\ MainInit
    /\ pushStep = 10
    /\ LaunchInit
    /\ WindowInit("win32")
    /\ \E stored \in StoredNames : NameInit(stored)

Typing == \E text \in NameTexts : TypeName(text)

\* saveName runs on a click on Save and on Enter in the input, cancelEdit
\* on a click on Cancel and on Escape (renderer.js:168-186).
NextName == DOMContentLoaded \/ ClickEditName \/ Typing \/ saveName \/ cancelEdit

SpecName == InitName /\ [][NextName]_vars

\* The windows of the application on macOS and on Windows.
InitWindow ==
    /\ MainInit
    /\ pushStep = 10
    /\ LaunchInit
    /\ NameInit("")
    /\ \E os \in Platforms : WindowInit(os)

WindowControl ==
    \E channel \in WindowChannels, sender \in openWindows : WindowControlRequest(channel, sender)

Restore == \E w \in minimizedWindows : RestoreWindow(w)

SystemCloses == \E w \in openWindows : SystemClosesWindow(w)

NextWindow == WhenReady \/ WindowControl \/ Restore \/ SystemCloses \/ Activate

SpecWindow == InitWindow /\ [][NextWindow]_vars

\* ------------------------------------------------------------------------
\* CPU usage estimator: properties (checked under SpecCpu)
\* ------------------------------------------------------------------------

\* The deltas of the latest call, when a previous sample was stored.
IdleDelta == currentCpuInfo.idle - entryCpuInfo.idle
TotalDelta == currentCpuInfo.total - entryCpuInfo.total

\* The latest call found a stored previous sample.
CalledWithPrevious == cpuCalls = 2 /\ entryCpuInfo # Null

\* C1: whatever the sequence of tick samples (equal and decreasing counters
\* included), every value getCpuUsage returns is a number in [0,100].
C1_UsageInRange == cpuUsageReturned \in 0..100

\* C1 witness: a call whose counters went down against the stored sample.
C1_Witness ==
    /\ CalledWithPrevious
    /\ IdleDelta < 0
    /\ TotalDelta < 0
    /\ cpuUsageReturned \in 0..100

\* C2: a call with a stored previous sample and totalDelta = 0 returns 0.
C2_ZeroTotalDeltaReturnsZero ==
    (CalledWithPrevious /\ TotalDelta = 0) => cpuUsageReturned = 0

C4_ExactUsageFormula ==
    (CalledWithPrevious /\ TotalDelta > 0) =>
        LET scaled == 100 * TotalDelta - 100 * IdleDelta
        IN  IF scaled <= 0 THEN cpuUsageReturned = 0
            ELSE IF scaled >= 100 * TotalDelta THEN cpuUsageReturned = 100
            ELSE cpuUsageReturned * TotalDelta = scaled

\* C5: a call whose counters are lower than the stored sample (a counter
\* reset) returns 0, as a first call does.
C5_CounterResetReturnsZero ==
    (CalledWithPrevious /\ IdleDelta < 0 /\ TotalDelta < 0) => cpuUsageReturned = 0

\* C6: after every call the stored previous sample is the sample that call
\* read, and the value the n-th call returns is the value computed from the
\* samples read by calls n-1 and n.
C6_DeltaAgainstPrecedingCall ==
    /\ cpuCalls >= 1 => previousCpuInfo = currentCpuInfo
    /\ cpuCalls = 2 => cpuUsageReturned = UsageFromDelta(priorCpuInfo, currentCpuInfo)

\* C6 witness: a second or later call that read a sample different from the
\* one before it and from a zero-delta one.
C6_Witness ==
    /\ cpuCalls = 2
    /\ priorCpuInfo # currentCpuInfo
    /\ previousCpuInfo = currentCpuInfo
    /\ cpuUsageReturned \notin {0, 100}

\* ------------------------------------------------------------------------
\* History buffer: properties (checked under SpecHist)
\* ------------------------------------------------------------------------

\* The last n elements of a sequence (all of it when it is shorter).
LastN(seq, n) ==
    IF Len(seq) <= n THEN seq ELSE SubSeq(seq, Len(seq) - n + 1, Len(seq))

\* C7: each history buffer holds at most maxDataPoints values, and what it
\* holds is a run of the pushed values in push order, ending with the latest
\* push: nothing re-ordered, nothing dropped as a duplicate.
C7_HistoryBoundedAndOrdered ==
    \A type \in HistoryTypes :
        LET buffer == heap[performanceHistory(type)]
        IN  /\ Len(buffer) <= maxDataPoints
            /\ Len(buffer) <= Len(pushLog[type])
            /\ buffer = LastN(pushLog[type], Len(buffer))

\* C7 witness: a full buffer of equal values after more than 60 pushes.
C7_Witness ==
    /\ pushStep = 0
    /\ Len(pushLog["cpu"]) > maxDataPoints
    /\ Len(heap["history.cpu"]) = maxDataPoints
    /\ heap["history.cpu"][1] = heap["history.cpu"][2]

\* C8: after N > 60 pushes into a buffer its snapshot has exactly 60 values,
\* the last 60 pushed in push order; 10,20,...,700 gives 110 ... 700.
C8_SnapshotIsLastSixty ==
    \A type \in HistoryTypes :
        LET snap == SpreadOfHistory(heap, type)
            n == Len(pushLog[type])
        IN  /\ n > 60 =>
                /\ Len(snap) = 60
                /\ \A i \in 1..60 : snap[i] = pushLog[type][n - 60 + i]
            /\ (n = 70 /\ pushStep = 10) =>
                /\ pushLog[type][1] = 10
                /\ pushLog[type][70] = 700
                /\ snap[1] = 110
                /\ snap[Len(snap)] = 700

\* C8 witness: the 70 pushes 10,20,...,700 into the memory buffer.
C8_Witness ==
    /\ pushStep = 10
    /\ snapshot = Null
    /\ snapshotTouched = FALSE
    /\ everMutated = FALSE
    /\ now = 0
    /\ prevPollAt = 0
    /\ pollCount = 0
    /\ gpuFetches = 0
    /\ networkFetches = 0
    /\ Len(pushLog["memory"]) = 70
    /\ Len(SpreadOfHistory(heap, "memory")) = 60
    /\ SpreadOfHistory(heap, "memory")[1] = 110

\* ------------------------------------------------------------------------
\* Snapshot assembly: properties (checked under Spec)
\* ------------------------------------------------------------------------

\* CACHE_DURATION of the documented cache (README.md:208).
CACHE_DURATION == 5000

\* C9: the history arrays of a returned snapshot are copies. Whatever the
\* consumer does to them, each internal buffer still holds exactly the last
\* values pushed by the polls, and the arrays of a snapshot the consumer has
\* not touched hold the same.
C9_SnapshotHistoryIsCopy ==
    /\ \A type \in HistoryTypes :
           heap[performanceHistory(type)] = LastN(pushLog[type], maxDataPoints)
    /\ snapshot # Null =>
           \A type \in HistoryTypes :
               /\ snapshot.performanceHistory[type] # performanceHistory(type)
               /\ ~snapshotTouched =>
                      heap[snapshot.performanceHistory[type]]
                          = LastN(pushLog[type], maxDataPoints)

\* C9 witness: a poll that ran after the consumer mutated an earlier
\* snapshot's history array.
C9_Witness ==
    /\ everMutated
    /\ ~snapshotTouched
    /\ pollCount >= 2
    /\ Len(heap["history.cpu"]) = pollCount
    /\ heap[snapshot.performanceHistory["cpu"]] = heap["history.cpu"]

\* C10: a poll that runs less than 5000 ms after the entries were captured
\* invokes neither fetch function: of two polls 1000 ms apart only the first
\* invokes getGPUInfo and getNetworkInfo, once each in total.
C10_FreshEntryNotRefetched ==
    (pollCount = 2 /\ now - prevPollAt < CACHE_DURATION) =>
        (gpuFetches = 1 /\ networkFetches = 1)

\* C11: a poll that finds no entry, or an entry at least 5000 ms old, invokes
\* the fetch function once, stores the result with the current timestamp and
\* returns it. (The main process starts with no entry, so the first poll is
\* such a poll.)
C11_StaleEntryRefetchedAndStored ==
    pollCount >= 1 =>
        /\ gpuFetches >= 1
        /\ networkFetches >= 1
        /\ cacheEntries["gpu"] # Null
        /\ cacheEntries["network"] # Null
        /\ (pollCount = 1 \/ now - prevPollAt >= CACHE_DURATION) =>
               /\ cacheEntries["gpu"].capturedAt = now
               /\ cacheEntries["gpu"].value.name = snapshot.gpuName
               /\ cacheEntries["network"].capturedAt = now
               /\ cacheEntries["network"].value.ssid = snapshot.networkSSID

\* C12: each cached category has an entry with a capture timestamp of its
\* own: a poll leaves behind one entry per category, and a poll that does not
\* fetch a category leaves that category's entry, capturedAt included, as it
\* was, whatever it does to the other category.
C12_IndependentCaptureTimes ==
    [][pollCount' > pollCount =>
          /\ cacheEntries'["gpu"] # Null
          /\ cacheEntries'["network"] # Null
          /\ gpuFetches' = gpuFetches => cacheEntries'["gpu"] = cacheEntries["gpu"]
          /\ networkFetches' = networkFetches =>
                 cacheEntries'["network"] = cacheEntries["network"]]_vars

\* ------------------------------------------------------------------------
\* Failing collaborators: properties (checked under SpecShell)
\* ------------------------------------------------------------------------

\* The shell answers from which a fetch function takes its fallback branch.
GpuFetchFails(shell) == shell.throws \/ shell.nameMatch = Null
NetFetchFails(shell) == shell.throws \/ shell.ssidMatch = Null
DiskFetchFails(shell) == shell.throws \/ shell.totalSpace <= 0

\* The latest poll's CPU and memory fields are measured from the readings
\* of that poll.
FreshCpuAndMemory ==
    /\ currentCpuInfo = CurrentCpuInfoOf(pollInputs.cpus)
    /\ snapshot.cpuUsage = cpuUsageReturned
    /\ snapshot.cpuUsage = CpuUsageValue(entryCpuInfo, currentCpuInfo)
    /\ snapshot.memoryUsage * pollInputs.totalMemory
           = (pollInputs.totalMemory - pollInputs.freeMemory) * 100

UnknownCpu ==
    [name |-> "Unknown", manufacturer |-> "Unknown", cores |-> "Unknown",
     logicalProcessors |-> "Unknown", maxClockSpeed |-> "Unknown",
     architecture |-> "Unknown", l2Cache |-> "Unknown", l3Cache |-> "Unknown"]
UnknownBoard == [manufacturer |-> "Unknown", product |-> "Unknown"]

C16_FieldsInRange ==
    snapshot # Null =>
        /\ snapshot.cpuUsage \in 0..100
        /\ snapshot.memoryUsage \in 0..100
        /\ snapshot.storageUsage \in 0..100
        /\ snapshot.gpuUsage \in 0..100
        /\ snapshot.networkSignal \in 0..100
        /\ snapshot.totalMemory >= 0
        /\ snapshot.usedMemory >= 0
        /\ snapshot.freeMemory >= 0
        /\ snapshot.storageTotalGB >= 0
        /\ snapshot.storageUsedGB >= 0
        /\ snapshot.storageFreeGB >= 0

\* ------------------------------------------------------------------------
\* Renderer: properties (checked under SpecRenderer)
\* ------------------------------------------------------------------------

\* The requests in flight that the refresh timer started.
TimerRequestsInFlight == SelectSeq(inFlight, LAMBDA request : request.startedBy = "timer")

\* The step is the completion of a request.
ResponseStep == Len(inFlight') < Len(inFlight)

\* C17: in every reachable state at most one request started by the refresh
\* timer is in flight.
C17_OneTimerPollInFlight == Len(TimerRequestsInFlight) <= 1

\* C18: while auto-refresh is off no new poll starts; switching it off
\* leaves no timer set and leaves the requests in flight where they are; a
\* request completing with a snapshot while auto-refresh is off is rendered,
\* with the hostname marked as paused.
C18_ToggleOffPausesScheduling ==
    [][/\ (domReady /\ Len(inFlight') > Len(inFlight)) => autoRefreshEnabled
       /\ (autoRefreshEnabled /\ ~autoRefreshEnabled') =>
              /\ activeTimers' = {}
              /\ inFlight' = inFlight
       /\ (ResponseStep /\ ~autoRefreshEnabled /\ ~lastResponse'.outcome.throws) =>
              /\ lastResponse'.request = Head(inFlight)
              /\ display'["hostname"] = lastResponse'.outcome.data.hostname \o " (Paused)"
              /\ display'["uptime"] = lastResponse'.outcome.data.uptime
              /\ display'["cpu-usage"] = ToString(lastResponse'.outcome.data.cpuUsage) \o "%"
              /\ display'["network-name"] = lastResponse'.outcome.data.networkSSID]_vars

\* C18 witness: auto-refresh is off and the latest response, of a request
\* the timer had started, was rendered with the paused hostname.
C18_Witness ==
    /\ ~autoRefreshEnabled
    /\ activeTimers = {}
    /\ lastResponse # Null
    /\ lastResponse.request.startedBy = "timer"
    /\ ~lastResponse.outcome.throws
    /\ display["hostname"] = "PC-A (Paused)"
    /\ display["uptime"] = lastResponse.outcome.data.uptime
    /\ display["refresh-status"] = "Paused"

\* C19: a request that throws changes neither the timer nor
\* autoRefreshEnabled, so a set timer stays set and keeps starting polls;
\* a later response with a snapshot is rendered in full, error texts gone.
C19_FailureKeepsLoopRunning ==
    [][ResponseStep =>
          /\ refreshInterval' = refreshInterval
          /\ activeTimers' = activeTimers
          /\ autoRefreshEnabled' = autoRefreshEnabled
          /\ ~lastResponse'.outcome.throws =>
                 LET data == lastResponse'.outcome.data IN
                 /\ display'["hostname"] \in {data.hostname, data.hostname \o " (Paused)"}
                 /\ display'["cpu-usage"] = ToString(data.cpuUsage) \o "%"
                 /\ display'["memory-usage"] = ToString(data.memoryUsage) \o "%"
                 /\ display'["memory-details"] =
                        data.usedMemory \o " GB used of " \o data.totalMemory \o " GB ("
                            \o data.freeMemory \o " GB free)"]_vars

\* C19 witness: with the timer still set, a request the timer started while
\* the display showed the error texts has been answered and rendered.
C19_Witness ==
    /\ autoRefreshEnabled
    /\ refreshInterval \in activeTimers
    /\ lastResponse # Null
    /\ lastResponse.request.startedBy = "timer"
    /\ lastResponse.request.errorShown
    /\ ~lastResponse.outcome.throws
    /\ display["cpu-usage"] = "75%"
    /\ display["hostname"] = "PC-A"

\* C20: a request that throws puts the error texts on cpu-usage,
\* memory-usage, memory-details and hostname and leaves every other element
\* as it was shown before.
C20_ErrorMarksOnlyAffectedFields ==
    [][(ResponseStep /\ lastResponse'.outcome.throws) =>
          /\ display'["cpu-usage"] = "Error"
          /\ display'["memory-usage"] = "Error"
          /\ display'["memory-details"] = "Error loading memory data"
          /\ display'["hostname"] = "Error loading hostname"
          /\ \A field \in DisplayFields \ ErrorFields : display'[field] = display[field]]_vars

\* C20 witness: a request threw after an earlier one had been rendered; the
\* error texts are shown next to the values of the rendered snapshot.
C20_Witness ==
    /\ lastResponse # Null
    /\ lastResponse.outcome.throws
    /\ display["cpu-usage"] = "Error"
    /\ display["hostname"] = "Error loading hostname"
    /\ display["uptime"] = "1h 1m"
    /\ display["storage-usage"] = "75%"
    /\ display["cpu-history-chart"] = ToString(<<25, 75>>)

\* ------------------------------------------------------------------------
\* The launch request: properties (checked under SpecLaunch)
\* ------------------------------------------------------------------------

\* C21: every launch-malwarebytes request returns a {success, message}
\* result and never rejects. The path handed to spawn is the first probed
\* path that exists, in list order; the start-menu fallback runs only when
\* no probed path exists; success is false exactly when no path exists and
\* the fallback calls back with an error, or when launching throws.
C21_LaunchResultContract ==
    lastLaunch # Null =>
        LET found == {i \in DOMAIN malwarebytesPath : malwarebytesPath[i] \in lastLaunch.existing}
            threw == \/ (found # {} /\ lastLaunch.spawnThrows)
                     \/ (found = {} /\ lastLaunch.execOutcome = "throws")
        IN  /\ DOMAIN lastLaunch.returned = {"success", "message"}
            /\ lastLaunch.returned.success \in BOOLEAN
            /\ lastLaunch.returned.message # ""
            /\ (launchRequest # Null /\ launchRequest.state = "answered") =>
                   launchRequest.result = lastLaunch.returned
            /\ found # {} =>
                   /\ \E i \in found :
                          /\ \A j \in found : i <= j
                          /\ lastLaunch.settled.spawned = malwarebytesPath[i]
                   /\ ~lastLaunch.spawnThrows => lastLaunch.returned.success
            /\ lastLaunch.settled.fallback <=> (found = {})
            /\ found = {} => lastLaunch.settled.spawned = ""
            /\ ~lastLaunch.returned.success
                   <=> ((found = {} /\ lastLaunch.execOutcome = "error") \/ threw)

\* C21 witness: the first probed path is absent, the second and the fourth
\* exist, and the second was launched with success.
C21_Witness ==
    /\ lastLaunch # Null
    /\ lastLaunch.existing = {malwarebytesPath[2], malwarebytesPath[4]}
    /\ lastLaunch.settled.spawned = malwarebytesPath[2]
    /\ ~lastLaunch.settled.fallback
    /\ lastLaunch.returned.success
    /\ launchRequest # Null
    /\ launchRequest.state = "answered"

\* C28 as stated: while a launch request is pending the button is disabled,
\* and after every outcome the button is enabled again and the status text
\* returns to 'Ready to launch'.
C28_LaunchButtonRecovers ==
    /\ [](launchRequest # Null => launchDisabled)
    /\ [](launchDisabled => <>(~launchDisabled))
    /\ [](launchStatus # "Ready to launch" => <>(launchStatus = "Ready to launch"))

\* ------------------------------------------------------------------------
\* Long runs of polls: properties (checked under SpecLong)
\* ------------------------------------------------------------------------

\* C22: the history arrays of a returned snapshot hold the buffers' contents
\* at assembly time, this poll's samples included: the last element of
\* performanceHistory.cpu is the snapshot's cpuUsage and the last element of
\* performanceHistory.memory is its memoryUsage, for every poll.
C22_SnapshotHistoryEndsWithOwnSamples ==
    (snapshot # Null /\ ~snapshotTouched) =>
        LET cpu == heap[snapshot.performanceHistory["cpu"]]
            memory == heap[snapshot.performanceHistory["memory"]]
        IN  /\ cpu = heap["history.cpu"]
            /\ memory = heap["history.memory"]
            /\ Len(cpu) >= 1
            /\ Len(memory) >= 1
            /\ cpu[Len(cpu)] = snapshot.cpuUsage
            /\ memory[Len(memory)] = snapshot.memoryUsage

\* C22 witness: the 61st poll, whose samples differ from those of the 60th.
C22_Witness ==
    /\ pollCount = 61
    /\ snapshot # Null
    /\ Len(heap[snapshot.performanceHistory["memory"]]) = maxDataPoints
    /\ heap[snapshot.performanceHistory["memory"]][maxDataPoints] = snapshot.memoryUsage
    /\ heap[snapshot.performanceHistory["memory"]][maxDataPoints - 1] # snapshot.memoryUsage
    /\ heap[snapshot.performanceHistory["cpu"]][maxDataPoints] = snapshot.cpuUsage

\* C27: the two history buffers always have the same length, the smaller of
\* 60 and the number of polls started: each poll appends one sample to each.
C27_BuffersSameLength ==
    /\ Len(heap["history.cpu"]) = Len(heap["history.memory"])
    /\ Len(heap["history.cpu"]) = (IF pollCount < 60 THEN pollCount ELSE 60)

\* C27 witness: 62 polls, both buffers at 60 values.
C27_Witness ==
    /\ pollCount = 62
    /\ Len(heap["history.cpu"]) = 60
    /\ Len(heap["history.memory"]) = 60
    /\ Len(pushLog["cpu"]) = 62

\* ------------------------------------------------------------------------
\* Disk usage and the order of the handler's calls
\* ------------------------------------------------------------------------

\* C23: disk usage is never served from a cache. Every poll invokes the
\* disk query for each storage field, and a storage field whose query
\* answered holds what this poll's query measured (checked under SpecShell).
C23_DiskMeasuredByEveryPoll ==
    /\ diskFetches = 4 * pollCount
    /\ pollInputs # Null =>
           LET shell == pollInputs.diskShells IN
           /\ ~DiskFetchFails(shell[1]) =>
                  snapshot.storageUsage * shell[1].totalSpace
                      = (shell[1].totalSpace - shell[1].freeSpace) * 100
           /\ ~DiskFetchFails(shell[2]) => snapshot.storageTotalGB = shell[2].totalSpace
           /\ ~DiskFetchFails(shell[3]) => snapshot.storageFreeGB = shell[3].freeSpace
           /\ ~DiskFetchFails(shell[4]) =>
                  snapshot.storageUsedGB = shell[4].totalSpace - shell[4].freeSpace

\* C23 witness: a second poll whose disk queries found 256 of 512 GiB free.
C23_Witness ==
    /\ pollCount = 2
    /\ diskFetches = 8
    /\ \A i \in 1..4 : ~DiskFetchFails(pollInputs.diskShells[i])
    /\ pollInputs.diskShells[3].freeSpace = 256
    /\ snapshot.storageFreeGB = 256
    /\ snapshot.storageUsage = 50

\* C26 as stated: the four storage fields of a snapshot come from one disk
\* measurement: all four are the values of one successful query, or all
\* four are the fallback defaults (checked under SpecShell).
C26_StorageFieldsFromOneMeasurement ==
    snapshot # Null =>
        \E reading \in {getDiskUsage(shell) : shell \in DiskShellOutcomes} :
            /\ snapshot.storageUsage = reading.usagePercentage
            /\ snapshot.storageTotalGB = reading.totalGB
            /\ snapshot.storageFreeGB = reading.freeGB
            /\ snapshot.storageUsedGB = reading.usedGB

\* The positions of a call in the handler's sequence of calls.
CallPositions(call) == {i \in DOMAIN pollTrace : pollTrace[i] = call}

\* The sub-fetches of a poll: GPU, hardware, network and disk.
SubFetchCalls ==
    {"getGPUInfo", "getDetailedCPUInfo", "getDetailedRAMInfo", "getMotherboardInfo",
     "getNetworkInfo", "getDiskUsage"}

SubFetchPositions == UNION {CallPositions(call) : call \in SubFetchCalls}

C25_OneTimerIffEnabled ==
    domReady =>
        /\ Cardinality(activeTimers) <= 1
        /\ (activeTimers # {}) <=> autoRefreshEnabled
        /\ (refreshInterval # NoTimer) <=> autoRefreshEnabled
        /\ refreshInterval # NoTimer => activeTimers = {refreshInterval}

\* C25 witness: auto-refresh switched off and on again: the second timer is
\* the only one set.
C25_Witness ==
    /\ domReady
    /\ autoRefreshEnabled
    /\ timersCreated = 2
    /\ activeTimers = {refreshInterval}
    /\ refreshInterval = 2

\* C29 as stated: a window-control request acts on the window that is open
\* when it is made, the window whose page sent it (checked under SpecWindow).
C29_RequestActsOnOpenWindow ==
    lastWindowRequest # Null =>
        /\ lastWindowRequest.target \in lastWindowRequest.open
        /\ lastWindowRequest.target = lastWindowRequest.sender
        /\ ~lastWindowRequest.threw

\* C30 as stated: whenever the name setup panel is hidden the edit-name
\* button is visible (checked under SpecName).
C30_HiddenPanelHasEditButton ==
    (domReady /\ nameSetupHidden) => editNameBtnDisplay # "none"

====
